---- MODULE Spec2Model ----
(***************************************************************************)
(* PromptCanva-Pro backend: the daily usage ledger                         *)
(* (services/usage_tracker.py), the JSON file store                        *)
(* (services/persistent_storage.py) and the generation routes              *)
(* (routes/images.py) that drive them.                                     *)
(*                                                                         *)
(* Days are counted as ordinals.  The ledger's date keys are the           *)
(* fixed-width strings '%Y-%m-%d', whose string order is the order of the  *)
(* dates, so a key is modelled by the ordinal of its day.                  *)
(***************************************************************************)
EXTENDS Integers, Sequences, FiniteSets, TLC

(***************************************************************************)
(* Program constants                                                       *)
(***************************************************************************)
LimitAnonymous == 1
LimitAuthenticated == 5
RetentionDays == 7
\* save_image snapshots the store when len(images) % 10 == 0
BackupEvery == 10
\* _cleanup_old_backups keeps backup_files[:20]
KeepBackups == 20

(***************************************************************************)
(* Bounds of the model                                                     *)
(***************************************************************************)
\* the first modelled day; old enough for an 8 day old bucket to exist
StartDay == 8
\* number of day changes explored after StartDay
MaxDayChanges == 1

\* number of concurrent requests
NProcs == 2
\* number of save_image calls the concurrent requests make in all
MaxSaves == 2
\* number of save_image calls explored
MaxImages == 1
\* number of save_generation_record calls explored
MaxGenerations == 2
\* number of seconds the clock of the backup timestamps advances
MaxClock == 1

\* number of increment_usage calls that return True for one identity on
\* one day, on a disk whose writes can fail
MaxCommits == 6

\* number of snapshots the store has taken before the modelled calls
MaxSnapshots == 10

\* None, or an empty string: a user id that Python treats as false
NoUser == ""
UserIds == {"a"}
IpAddrs == {"a"}

VARIABLES
    usage_file,   \* usage_data.json: [exists, valid, data]
    today,        \* ordinal of the current UTC day
    limits,       \* UsageTracker.limits of the tracker in use
    last,         \* the last ledger call: [op, user_id, ip, ret]
    prev,         \* the ledger call before it: [op, user_id, ip]
    before,       \* usage_file as it was before the last call
    committed     \* per identity key: commits that returned True today
                  \* and were not cancelled by reset_usage

VARIABLES
    fs,           \* data/persistent: per collection its file, .tmp and .backup
    backup_dir,   \* data/persistent/backups: snapshot name -> content
    clock,        \* datetime.utcnow(), in seconds
    uuids,        \* number of ids generate_uuid has handed out
    accepted,     \* the records of the save_image calls that returned
    slast,        \* the last store call: [op, image_id, user_id, ret]
    schanged,     \* whether the last store call changed a file
    taken         \* the names of all snapshots _create_backup has written

VARIABLES
    pc,           \* per request: where its handler stands
    inc_data,     \* per request: the dict increment_usage loaded and changed
    inc_ret,      \* per request: what its increment_usage returned
    rq,           \* <<user_id, ip_address>> of the requests
    served,       \* images returned to that identity today
    req_image     \* per request: the image_id of its image, 0 before it has one

VARIABLES
    sproc         \* per request: its PersistentStorage() and save_image call,
                  \* [pc, meta, ini, read, wpath, wdata, wret, wbak, wfd, at]

ledgerVars == <<usage_file, today, limits, last, prev, before, committed>>

requestVars == <<pc, inc_data, inc_ret, rq, served, req_image>>

writerVars == <<sproc>>

storeVars == <<fs, backup_dir, clock, uuids, accepted, slast, schanged, taken>>

vars == <<usage_file, today, limits, last, prev, before, committed,
          fs, backup_dir, clock, uuids, accepted, slast, schanged, taken,
          pc, inc_data, inc_ret, rq, served, req_image, sproc>>

(***************************************************************************)
(* Python dict helpers                                                     *)
(***************************************************************************)
EmptyDict == <<>>

DictGet(d, k, default) == IF k \in DOMAIN d THEN d[k] ELSE default

DictSet(d, k, v) == [x \in (DOMAIN d) \cup {k} |-> IF x = k THEN v ELSE d[x]]

DictDel(d, k) == [x \in (DOMAIN d) \ {k} |-> d[x]]

(***************************************************************************)
(* UsageTracker                                                            *)
(***************************************************************************)
\* the number of characters json.dump(data, f, indent=2) writes for a
\* ledger: 9 + len(key) + 1 digit per counter, 22 + 1 per counter more for a
\* day that has counters, 19 for a day that has none, 3 around the days and a
\* comma between days; 2 for an empty ledger.  Ids and addresses have 1
\* character here.
RECURSIVE SumOver(_, _)
SumOver(set, f) ==
    IF set = {} THEN 0
    ELSE LET x == CHOOSE y \in set : TRUE
         IN  f[x] + SumOver(set \ {x}, f)

KeyChars(key) == (IF key[1] = "user" THEN 5 ELSE 3) + 1

BucketChars(bucket) ==
    IF DOMAIN bucket = {} THEN 19
    ELSE 22 + (Cardinality(DOMAIN bucket) - 1)
            + SumOver(DOMAIN bucket, [k \in DOMAIN bucket |-> 10 + KeyChars(k)])

JsonChars(data) ==
    IF DOMAIN data = {} THEN 2
    ELSE 3 + (Cardinality(DOMAIN data) - 1)
           + SumOver(DOMAIN data, [d \in DOMAIN data |-> BucketChars(data[d])])

\* a ledger file that json.load reads back as data
JsonFile(data) ==
    [exists |-> TRUE, valid |-> TRUE, data |-> data, size |-> JsonChars(data)]

NoUsageFile == [exists |-> FALSE, valid |-> FALSE, data |-> EmptyDict, size |-> 0]

\* a ledger file of n characters that does not parse: n = 0 after
\* open(usage_file, 'w'), n > 0 when a shorter dump left the tail of a longer
UnreadableFile(n) == [exists |-> TRUE, valid |-> FALSE, data |-> EmptyDict, size |-> n]

\* a dump of data from offset 0 into a file that was truncated before
\* another writer's dump
DumpOver(file, data) ==
    IF file.size > JsonChars(data) THEN UnreadableFile(file.size) ELSE JsonFile(data)

\* one of the three files of a collection in data/persistent
ListFile(data) == [exists |-> TRUE, valid |-> TRUE, data |-> data]

AbsentFile == [exists |-> FALSE, valid |-> FALSE, data |-> EmptyDict]

\* a file that exists and does not parse (empty, truncated, mixed)
CorruptFile == [exists |-> TRUE, valid |-> FALSE, data |-> EmptyDict]

TrackerLimits == [anonymous |-> LimitAnonymous, authenticated |-> LimitAuthenticated]

LoadUsageData(file) == IF file.exists /\ file.valid THEN file.data ELSE EmptyDict

SaveUsageData(data) == JsonFile(data)

EnsureUsageFile_Always(file) == SaveUsageData(EmptyDict)

EnsureUsageFile(file) == IF ~file.exists THEN SaveUsageData(EmptyDict) ELSE file

GetTodayKey_Month(now) == now \div 31

GetTodayKey(now) == now

CleanupOldData(data, now) ==
    LET cutoff_key == GetTodayKey(now - RetentionDays)
    IN  [date_key \in {k \in DOMAIN data : k >= cutoff_key} |-> data[date_key]]

IdentityKey_NoPrefix(user_id, ip_address) ==
    IF user_id # NoUser THEN <<"user", user_id>> ELSE <<"user", ip_address>>

IdentityKey(user_id, ip_address) ==
    IF user_id # NoUser THEN <<"user", user_id>> ELSE <<"ip", ip_address>>

IdentityLimit(lim, user_id) ==
    IF user_id # NoUser THEN lim.authenticated ELSE lim.anonymous

CheckUsageLimit_Inclusive(file, now, lim, user_id, ip_address) ==
    LET data == CleanupOldData(LoadUsageData(file), now)
        today_data == DictGet(data, GetTodayKey(now), EmptyDict)
        current_usage == DictGet(today_data, IdentityKey(user_id, ip_address), 0)
        limit == IdentityLimit(lim, user_id)
    IN  <<current_usage <= limit, current_usage, limit>>

\* (can_generate, current_usage, limit)
CheckUsageLimit(file, now, lim, user_id, ip_address) ==
    LET data == CleanupOldData(LoadUsageData(file), now)
        today_data == DictGet(data, GetTodayKey(now), EmptyDict)
        current_usage == DictGet(today_data, IdentityKey(user_id, ip_address), 0)
        limit == IdentityLimit(lim, user_id)
    IN  <<current_usage < limit, current_usage, limit>>

\* the in-memory part of increment_usage, on the data it loaded:
\* [ret, data] where data is what the call goes on to save when ret is TRUE
IncrementData_OffByOne(loaded, now, lim, user_id, ip_address) ==
    LET today_key == GetTodayKey(now)
        cleaned == CleanupOldData(loaded, now)
        data == IF today_key \notin DOMAIN cleaned
                THEN DictSet(cleaned, today_key, EmptyDict) ELSE cleaned
        today_data == data[today_key]
        key == IdentityKey(user_id, ip_address)
        current_usage == DictGet(today_data, key, 0)
        limit == IdentityLimit(lim, user_id)
    IN  IF current_usage > limit
        THEN [ret |-> FALSE, data |-> data]
        ELSE [ret |-> TRUE,
              data |-> DictSet(data, today_key, DictSet(today_data, key, current_usage + 1))]

IncrementData(loaded, now, lim, user_id, ip_address) ==
    LET today_key == GetTodayKey(now)
        cleaned == CleanupOldData(loaded, now)
        data == IF today_key \notin DOMAIN cleaned
                THEN DictSet(cleaned, today_key, EmptyDict) ELSE cleaned
        today_data == data[today_key]
        key == IdentityKey(user_id, ip_address)
        current_usage == DictGet(today_data, key, 0)
        limit == IdentityLimit(lim, user_id)
    IN  IF current_usage >= limit
        THEN [ret |-> FALSE, data |-> data]
        ELSE [ret |-> TRUE,
              data |-> DictSet(data, today_key, DictSet(today_data, key, current_usage + 1))]

\* increment_usage run without interference: [ret, file]
IncrementUsage(file, now, lim, user_id, ip_address) ==
    LET r == IncrementData(LoadUsageData(file), now, lim, user_id, ip_address)
    IN  IF r.ret THEN [ret |-> TRUE, file |-> SaveUsageData(r.data)]
                 ELSE [ret |-> FALSE, file |-> file]

\* what a write of the ledger file can come to: it goes through, open()
\* raises (the file stays as it was), or json.dump raises after open() has
\* truncated the file
SaveOutcomes == {"ok", "open_raises", "dump_raises"}

\* _save_usage_data: the exception is logged and swallowed
TrySaveUsageData(file, data, outcome) ==
    IF outcome = "ok" THEN JsonFile(data)
    ELSE IF outcome = "open_raises" THEN file
    ELSE UnreadableFile(0)

\* _ensure_usage_file with a write that may fail
TryEnsureUsageFile(file, outcome) ==
    IF ~file.exists THEN TrySaveUsageData(file, EmptyDict, outcome) ELSE file

\* increment_usage with a write that may fail: [ret, file]
TryIncrementUsage(file, now, lim, user_id, ip_address, outcome) ==
    LET r == IncrementData(LoadUsageData(file), now, lim, user_id, ip_address)
    IN  IF r.ret THEN [ret |-> TRUE, file |-> TrySaveUsageData(file, r.data, outcome)]
                 ELSE [ret |-> FALSE, file |-> file]

ResetUsage_KeepsOne(file, now, user_id, ip_address) ==
    LET data == LoadUsageData(file)
        today_key == GetTodayKey(now)
        key == IdentityKey(user_id, ip_address)
    IN  IF today_key \in DOMAIN data
        THEN [ret |-> TRUE,
              file |-> SaveUsageData(
                  IF key \in DOMAIN data[today_key] /\ data[today_key][key] > 1
                  THEN DictSet(data, today_key,
                               DictSet(data[today_key], key, data[today_key][key] - 1))
                  ELSE DictSet(data, today_key, DictDel(data[today_key], key)))]
        ELSE [ret |-> TRUE, file |-> file]

\* reset_usage: [ret, file]
ResetUsage(file, now, user_id, ip_address) ==
    LET data == LoadUsageData(file)
        today_key == GetTodayKey(now)
        key == IdentityKey(user_id, ip_address)
    IN  IF today_key \in DOMAIN data
        THEN [ret |-> TRUE,
              file |-> SaveUsageData(DictSet(data, today_key, DictDel(data[today_key], key)))]
        ELSE [ret |-> TRUE, file |-> file]

\* hours of the day at which a call is made
Hours == {0, 23}

Max(a, b) == IF a >= b THEN a ELSE b

\* _get_reset_time: now.replace(hour=0, minute=0, second=0, microsecond=0)
\* + timedelta(days=1), as [day, hour]
GetResetTime(now, hour) ==
    LET midnight == [day |-> now, hour |-> 0]
    IN  [midnight EXCEPT !.day = @ + 1]

GetUsageStats_RemainingOfLimit(file, now, hour, lim, user_id, ip_address) ==
    LET c == CheckUsageLimit(file, now, lim, user_id, ip_address)
    IN  [can_generate |-> c[1], current_usage |-> c[2], limit |-> c[3],
         remaining |-> c[3],
         reset_time |-> GetResetTime(now, hour),
         user_type |-> IF user_id # NoUser THEN "authenticated" ELSE "anonymous"]

\* get_usage_stats
GetUsageStats(file, now, hour, lim, user_id, ip_address) ==
    LET c == CheckUsageLimit(file, now, lim, user_id, ip_address)
    IN  [can_generate |-> c[1], current_usage |-> c[2], limit |-> c[3],
         remaining |-> Max(0, c[3] - c[2]),
         reset_time |-> GetResetTime(now, hour),
         user_type |-> IF user_id # NoUser THEN "authenticated" ELSE "anonymous"]

\* the count the ledger file holds for a key under a day, 0 when it holds none
StoredCount(file, day, key) ==
    IF file.exists /\ file.valid /\ day \in DOMAIN file.data /\ key \in DOMAIN file.data[day]
    THEN file.data[day][key] ELSE 0

Call(op, user_id, ip_address, ret) ==
    [op |-> op, user_id |-> user_id, ip |-> ip_address, ret |-> ret]

NoCall == Call("none", NoUser, "a", TRUE)

Caller(call) == [op |-> call.op, user_id |-> call.user_id, ip |-> call.ip]

Keys == {IdentityKey(u, i) : u \in UserIds \cup {NoUser}, i \in IpAddrs}

\* <<user_id, ip_address>> as the routes pass them
Identities == (UserIds \cup {NoUser}) \X IpAddrs

(***************************************************************************)
(* PersistentStorage                                                       *)
(***************************************************************************)
StoreUsers == {"a", "b"}

\* the three collections; each has a file, a .tmp and a .backup sibling
Collections == <<"images", "users", "generations">>

\* files_to_init: [] for images and generations, {} for users
DefaultData(path) == <<>>

NoFiles == [file |-> AbsentFile, tmp |-> AbsentFile, backup |-> AbsentFile]

\* _read_json_safe on one collection: the backup is tried only in the
\* handler of an exception raised while reading the target
ReadJsonSafe(files, default) ==
    IF files.file.exists
    THEN IF files.file.valid
         THEN files.file.data
         ELSE IF files.backup.exists /\ files.backup.valid
              THEN files.backup.data
              ELSE default
    ELSE default

\* _write_json_atomic completing without an exception and without
\* interference: temp file, target to .backup, temp onto target
WriteJsonAtomic(files, data) ==
    LET written == [files EXCEPT !.tmp = ListFile(data)]
        backed == IF written.file.exists
                  THEN [written EXCEPT !.backup = written.file, !.file = AbsentFile]
                  ELSE written
    IN  [backed EXCEPT !.file = backed.tmp, !.tmp = AbsentFile]

\* what a call of _write_json_atomic can come to: it goes through, or one of
\* its steps raises (open of the .tmp, json.dump into it, os.replace of the
\* target to .backup, os.replace of the .tmp onto the target)
WriteOutcomes == {"ok", "open_raises", "dump_raises", "backup_raises", "replace_raises"}

\* the step is reached and raises; the rename to .backup is reached only
\* when the target exists
WriteRaises(files, outcome) ==
    /\ outcome # "ok"
    /\ outcome = "backup_raises" => files.file.exists

\* _write_json_atomic with its except clause: [raised, files].  The clause
\* removes the .tmp and raises; it moves nothing back.
TryWriteJsonAtomic(files, data, outcome) ==
    IF ~WriteRaises(files, outcome)
    THEN [raised |-> FALSE, files |-> WriteJsonAtomic(files, data)]
    ELSE LET reached == IF outcome = "replace_raises" /\ files.file.exists
                        THEN [files EXCEPT !.backup = files.file, !.file = AbsentFile]
                        ELSE files
         IN  [raised |-> TRUE, files |-> [reached EXCEPT !.tmp = AbsentFile]]

InitializeFiles_Always(f) ==
    [path \in DOMAIN f |-> WriteJsonAtomic(f[path], DefaultData(path))]

\* _initialize_files: writes the default only where the target is absent
InitializeFiles(f) ==
    [path \in DOMAIN f |->
        IF ~f[path].file.exists
        THEN WriteJsonAtomic(f[path], DefaultData(path))
        ELSE f[path]]

ImageRecord(image_id, user_id, is_favorite) ==
    [id |-> image_id, user_id |-> user_id, is_favorite |-> is_favorite]

GenerationRecord(user_id, image_id, now) ==
    [id |-> <<user_id, now>>, user_id |-> user_id, image_id |-> image_id,
     timestamp |-> now]

\* a snapshot file name '<kind>_%Y%m%d_%H%M%S.json'
BackupName(kind, now) == [kind |-> kind, ts |-> now]

\* string order of two snapshot names: "images_..." sorts after
\* "generations_...", and within a kind the timestamps sort by time
NameAfter(m, n) ==
    \/ m.kind = "images" /\ n.kind = "generations"
    \/ m.kind = n.kind /\ m.ts > n.ts

\* _cleanup_old_backups: sort the names in reverse, remove backup_files[20:]
CleanupOldBackups(dir) ==
    LET rank(n) == Cardinality({m \in DOMAIN dir : NameAfter(m, n)})
    IN  [n \in {x \in DOMAIN dir : rank(x) < KeepBackups} |-> dir[n]]

\* _create_backup without an exception
CreateBackup(f, dir, now) ==
    LET images == ReadJsonSafe(f["images"], <<>>)
        dir1 == DictSet(dir, BackupName("images", now), images)
        generations == ReadJsonSafe(f["generations"], <<>>)
        dir2 == DictSet(dir1, BackupName("generations", now), generations)
    IN  CleanupOldBackups(dir2)

\* the two names _create_backup writes at one timestamp
SnapshotNames(now) == {BackupName("images", now), BackupName("generations", now)}

\* the snapshots written once save_image has stored its n-th image
TakenAfter(names, n, now) ==
    IF n % BackupEvery = 0 THEN names \cup SnapshotNames(now) ELSE names

\* save_image without an exception: [fs, dir]
SaveImage(f, dir, now, image_metadata) ==
    LET images == Append(ReadJsonSafe(f["images"], <<>>), image_metadata)
        f1 == [f EXCEPT !["images"] = WriteJsonAtomic(@, images)]
    IN  [fs |-> f1,
         dir |-> IF Len(images) % BackupEvery = 0 THEN CreateBackup(f1, dir, now) ELSE dir]

GetAllImages(f) == ReadJsonSafe(f["images"], <<>>)

GetUserImages(f, user_id) ==
    SelectSeq(GetAllImages(f), LAMBDA img : img.user_id = user_id)

SetFavorite_First(images, i, is_favorite) ==
    [images EXCEPT ![1].is_favorite = is_favorite]

\* img['is_favorite'] = is_favorite on the record the loop stopped at
SetFavorite(images, i, is_favorite) ==
    [images EXCEPT ![i].is_favorite = is_favorite]

UpdateImageFavorite_NoOwnerCheck(f, image_id, user_id, is_favorite) ==
    LET images == ReadJsonSafe(f["images"], <<>>)
        hits == {i \in 1..Len(images) : images[i].id = image_id}
    IN  IF hits = {}
        THEN [ret |-> FALSE, fs |-> f]
        ELSE LET i == CHOOSE h \in hits : \A g \in hits : h <= g
                 updated == SetFavorite(images, i, is_favorite)
             IN  [ret |-> TRUE,
                  fs |-> [f EXCEPT !["images"] = WriteJsonAtomic(@, updated)]]

\* update_image_favorite without an exception: [ret, fs]
UpdateImageFavorite(f, image_id, user_id, is_favorite) ==
    LET images == ReadJsonSafe(f["images"], <<>>)
        hits == {i \in 1..Len(images) :
                    images[i].id = image_id /\ images[i].user_id = user_id}
    IN  IF hits = {}
        THEN [ret |-> FALSE, fs |-> f]
        ELSE LET i == CHOOSE h \in hits : \A g \in hits : h <= g
                 updated == SetFavorite(images, i, is_favorite)
             IN  [ret |-> TRUE,
                  fs |-> [f EXCEPT !["images"] = WriteJsonAtomic(@, updated)]]

SaveGenerationRecord_Overwrite(f, now, user_id, image_id) ==
    LET generations == <<GenerationRecord(user_id, image_id, now)>>
    IN  [f EXCEPT !["generations"] = WriteJsonAtomic(@, generations)]

\* save_generation_record without an exception
SaveGenerationRecord(f, now, user_id, image_id) ==
    LET generations == Append(ReadJsonSafe(f["generations"], <<>>),
                              GenerationRecord(user_id, image_id, now))
    IN  [f EXCEPT !["generations"] = WriteJsonAtomic(@, generations)]

\* save_image with a write that may fail; its except clause raises again:
\* [raised, fs, dir]
TrySaveImage(f, dir, now, image_metadata, outcome) ==
    LET images == Append(ReadJsonSafe(f["images"], <<>>), image_metadata)
        w == TryWriteJsonAtomic(f["images"], images, outcome)
        f1 == [f EXCEPT !["images"] = w.files]
    IN  IF w.raised
        THEN [raised |-> TRUE, fs |-> f1, dir |-> dir]
        ELSE [raised |-> FALSE, fs |-> f1,
              dir |-> IF Len(images) % BackupEvery = 0
                      THEN CreateBackup(f1, dir, now) ELSE dir]

\* save_generation_record with a write that may fail; its except clause
\* logs and returns: [raised, fs]
TrySaveGenerationRecord(f, now, user_id, image_id, outcome) ==
    LET generations == Append(ReadJsonSafe(f["generations"], <<>>),
                              GenerationRecord(user_id, image_id, now))
        w == TryWriteJsonAtomic(f["generations"], generations, outcome)
    IN  [raised |-> FALSE, fs |-> [f EXCEPT !["generations"] = w.files]]

\* the files a first PersistentStorage() leaves in an empty data directory
FreshStore == InitializeFiles([path \in {"images", "users", "generations"} |-> NoFiles])

StoreCall(op, image_id, user_id, ret) ==
    [op |-> op, image_id |-> image_id, user_id |-> user_id, ret |-> ret]

NoStoreCall == StoreCall("none", 0, "a", TRUE)

(***************************************************************************)
(* The ledger used by one caller at a time                                 *)
(***************************************************************************)
\* a ledger left by earlier days: an anonymous bucket 8 days old and an
\* authenticated user at its limit 7 days ago
OldLedger ==
    DictSet(DictSet(EmptyDict, StartDay - 8, DictSet(EmptyDict, <<"ip", "a">>, 1)),
            StartDay - 7, DictSet(EmptyDict, <<"user", "a">>, LimitAuthenticated))

LedgerInit ==
    /\ usage_file \in {JsonFile(EmptyDict), JsonFile(OldLedger)}
    /\ today = StartDay
    /\ limits = TrackerLimits
    /\ last = NoCall
    /\ prev = Caller(NoCall)
    /\ before = usage_file
    /\ committed = [k \in Keys |-> 0]

\* UsageTracker(): __init__ and _ensure_usage_file
NewTracker ==
    /\ usage_file' = EnsureUsageFile(usage_file)
    /\ limits' = TrackerLimits
    /\ last' = Call("new", NoUser, "a", TRUE)
    /\ prev' = Caller(last)
    /\ before' = usage_file
    /\ UNCHANGED <<today, committed>>
    /\ UNCHANGED <<storeVars, requestVars, writerVars>>

AfterCheckUsageLimit_SavesCleanup(file, now) ==
    SaveUsageData(CleanupOldData(LoadUsageData(file), now))

\* the ledger file once check_usage_limit has returned: the cleaned dict is
\* a local of the call, which has no _save_usage_data
AfterCheckUsageLimit(file, now) == file

DoCheck(user_id, ip_address) ==
    /\ last' = Call("check", user_id, ip_address,
                    CheckUsageLimit(usage_file, today, limits, user_id, ip_address))
    /\ prev' = Caller(last)
    /\ before' = usage_file
    /\ usage_file' = AfterCheckUsageLimit(usage_file, today)
    /\ UNCHANGED <<today, limits, committed>>
    /\ UNCHANGED <<storeVars, requestVars, writerVars>>

DoStats(user_id, ip_address, hour) ==
    /\ last' = Call("stats", user_id, ip_address,
                    GetUsageStats(usage_file, today, hour, limits, user_id, ip_address))
    /\ prev' = Caller(last)
    /\ before' = usage_file
    /\ usage_file' = AfterCheckUsageLimit(usage_file, today)
    /\ UNCHANGED <<today, limits, committed>>
    /\ UNCHANGED <<storeVars, requestVars, writerVars>>

DoIncrement(user_id, ip_address) ==
    LET r == IncrementUsage(usage_file, today, limits, user_id, ip_address)
        key == IdentityKey(user_id, ip_address)
    IN  /\ usage_file' = r.file
        /\ last' = Call("increment", user_id, ip_address, r.ret)
        /\ prev' = Caller(last)
        /\ before' = usage_file
        /\ committed' = IF r.ret THEN [committed EXCEPT ![key] = @ + 1] ELSE committed
        /\ UNCHANGED <<today, limits>>
        /\ UNCHANGED <<storeVars, requestVars, writerVars>>

DoReset(user_id, ip_address) ==
    LET r == ResetUsage(usage_file, today, user_id, ip_address)
        key == IdentityKey(user_id, ip_address)
    IN  /\ usage_file' = r.file
        /\ last' = Call("reset", user_id, ip_address, r.ret)
        /\ prev' = Caller(last)
        /\ before' = usage_file
        /\ committed' = [committed EXCEPT ![key] = 0]
        /\ UNCHANGED <<today, limits>>
        /\ UNCHANGED <<storeVars, requestVars, writerVars>>

\* UTC midnight passes
NextDay ==
    /\ today < StartDay + MaxDayChanges
    /\ today' = today + 1
    /\ last' = Call("nextday", NoUser, "a", TRUE)
    /\ prev' = Caller(last)
    /\ before' = usage_file
    /\ committed' = [k \in Keys |-> 0]
    /\ UNCHANGED <<usage_file, limits>>
    /\ UNCHANGED <<storeVars, requestVars, writerVars>>

LedgerNext ==
    \/ NewTracker
    \/ \E u \in UserIds \cup {NoUser}, i \in IpAddrs : DoCheck(u, i)
    \/ \E u \in UserIds \cup {NoUser}, i \in IpAddrs, h \in Hours : DoStats(u, i, h)
    \/ \E u \in UserIds \cup {NoUser}, i \in IpAddrs : DoIncrement(u, i)
    \/ \E u \in UserIds \cup {NoUser}, i \in IpAddrs : DoReset(u, i)
    \/ NextDay


(***************************************************************************)
(* The store used by one caller at a time                                  *)
(***************************************************************************)
Procs == 1..NProcs

RequestIdle ==
    /\ pc = [p \in Procs |-> "done"]
    /\ inc_data = [p \in Procs |-> EmptyDict]
    /\ inc_ret = [p \in Procs |-> FALSE]
    /\ req_image = [p \in Procs |-> 0]
    /\ rq = <<NoUser, "a">>
    /\ served = 0

IdleWriter ==
    [pc |-> "idle", meta |-> ImageRecord(0, "a", FALSE), ini |-> 1, read |-> <<>>,
     wpath |-> "images", wdata |-> <<>>, wret |-> "init", wbak |-> FALSE,
     wfd |-> "none", at |-> "idle"]

WriterIdle == sproc = [p \in Procs |-> IdleWriter]

LedgerIdle ==
    /\ usage_file = JsonFile(EmptyDict)
    /\ today = StartDay
    /\ limits = TrackerLimits
    /\ last = NoCall
    /\ prev = Caller(NoCall)
    /\ before = usage_file
    /\ committed = [k \in Keys |-> 0]

StoreIdle ==
    /\ fs = FreshStore
    /\ backup_dir = EmptyDict
    /\ taken = {}
    /\ clock = 0
    /\ uuids = 0
    /\ accepted = <<>>
    /\ slast = NoStoreCall
    /\ schanged = FALSE

\* nine images saved earlier by user "a": the next save_image is a tenth
NineImages == [i \in 1..(BackupEvery - 1) |-> ImageRecord(100 + i, "a", FALSE)]

StoreInit ==
    /\ \E start \in {<<>>, NineImages} :
          /\ fs = IF start = <<>> THEN FreshStore
                  ELSE [FreshStore EXCEPT !["images"] =
                           WriteJsonAtomic(WriteJsonAtomic(@, SubSeq(start, 1, Len(start) - 1)), start)]
          /\ accepted = start
    /\ backup_dir = EmptyDict
    /\ taken = {}
    /\ clock = 0
    /\ uuids = 0
    /\ slast = NoStoreCall
    /\ schanged = FALSE

\* PersistentStorage(): a restart, or the instance a request constructs
NewStorage ==
    /\ fs' = InitializeFiles(fs)
    /\ slast' = StoreCall("new", 0, "a", TRUE)
    /\ schanged' = (fs' # fs)
    /\ UNCHANGED <<backup_dir, taken, clock, uuids, accepted>>
    /\ UNCHANGED <<ledgerVars, requestVars, writerVars>>

\* save_image of a record with a fresh uuid, is_favorite False
DoSaveImage(user_id) ==
    /\ uuids < MaxImages
    /\ LET meta == ImageRecord(uuids + 1, user_id, FALSE)
           r == SaveImage(fs, backup_dir, clock, meta)
       IN  /\ fs' = r.fs
           /\ backup_dir' = r.dir
           /\ taken' = TakenAfter(taken, Len(GetAllImages(r.fs)), clock)
           /\ accepted' = Append(accepted, meta)
           /\ slast' = StoreCall("save_image", uuids + 1, user_id, "returned")
    /\ uuids' = uuids + 1
    /\ schanged' = TRUE
    /\ UNCHANGED clock
    /\ UNCHANGED <<ledgerVars, requestVars, writerVars>>

DoGetAllImages ==
    /\ slast' = StoreCall("get_all_images", 0, "a", GetAllImages(fs))
    /\ schanged' = FALSE
    /\ UNCHANGED <<fs, backup_dir, taken, clock, uuids, accepted>>
    /\ UNCHANGED <<ledgerVars, requestVars, writerVars>>

DoUpdateImageFavorite(image_id, user_id, is_favorite) ==
    LET r == UpdateImageFavorite(fs, image_id, user_id, is_favorite)
    IN  /\ fs' = r.fs
        /\ slast' = StoreCall("update_image_favorite", image_id, user_id, r.ret)
        /\ schanged' = (fs' # fs)
        /\ UNCHANGED <<backup_dir, taken, clock, uuids, accepted>>
    /\ UNCHANGED <<ledgerVars, requestVars, writerVars>>

\* save_generation_record for the image saved last, as generate_image calls it
DoSaveGenerationRecord(user_id, image_id) ==
    /\ image_id = uuids
    /\ Len(ReadJsonSafe(fs["generations"], <<>>)) < MaxGenerations
    /\ fs' = SaveGenerationRecord(fs, clock, user_id, image_id)
    /\ slast' = StoreCall("save_generation_record", image_id, user_id, "returned")
    /\ schanged' = TRUE
    /\ UNCHANGED <<backup_dir, taken, clock, uuids, accepted>>
    /\ UNCHANGED <<ledgerVars, requestVars, writerVars>>

\* a second passes
Tick ==
    /\ clock < MaxClock
    /\ clock' = clock + 1
    /\ slast' = StoreCall("tick", 0, "a", TRUE)
    /\ schanged' = FALSE
    /\ UNCHANGED <<fs, backup_dir, taken, uuids, accepted>>
    /\ UNCHANGED <<ledgerVars, requestVars, writerVars>>

\* ids a caller may name: none (0), a stored one, the first of NineImages
ImageIds == 0..MaxImages \cup {101}

StoreNext ==
    \/ NewStorage
    \/ \E u \in StoreUsers : DoSaveImage(u)
    \/ DoGetAllImages
    \/ \E id \in ImageIds, u \in StoreUsers, v \in BOOLEAN : DoUpdateImageFavorite(id, u, v)
    \/ \E u \in StoreUsers, id \in 1..MaxImages : DoSaveGenerationRecord(u, id)
    \/ Tick

\* a store call on a disk whose writes can fail, with what its write came to
\* and the files of its collection as they were before the call
FaultCall(op, image_id, user_id, ret, outcome, files) ==
    [op |-> op, image_id |-> image_id, user_id |-> user_id, ret |-> ret,
     fault |-> outcome, was |-> files]

DoSaveImageTry(user_id, outcome) ==
    /\ uuids < MaxSaves
    /\ LET meta == ImageRecord(uuids + 1, user_id, FALSE)
           r == TrySaveImage(fs, backup_dir, clock, meta, outcome)
       IN  /\ fs' = r.fs
           /\ backup_dir' = r.dir
           /\ taken' = IF r.raised THEN taken
                      ELSE TakenAfter(taken, Len(GetAllImages(r.fs)), clock)
           /\ accepted' = IF r.raised THEN accepted ELSE Append(accepted, meta)
           /\ slast' = FaultCall("save_image", uuids + 1, user_id,
                                 IF r.raised THEN "raised" ELSE "returned",
                                 IF WriteRaises(fs["images"], outcome) THEN outcome ELSE "ok",
                                 fs["images"])
    /\ uuids' = uuids + 1
    /\ schanged' = (fs' # fs)
    /\ UNCHANGED clock
    /\ UNCHANGED <<ledgerVars, requestVars, writerVars>>

DoSaveGenerationRecordTry(user_id, image_id, outcome) ==
    /\ image_id = uuids
    /\ Len(ReadJsonSafe(fs["generations"], <<>>)) < MaxGenerations
    /\ LET r == TrySaveGenerationRecord(fs, clock, user_id, image_id, outcome)
       IN  /\ fs' = r.fs
           /\ slast' = FaultCall("save_generation_record", image_id, user_id,
                                 IF r.raised THEN "raised" ELSE "returned",
                                 IF WriteRaises(fs["generations"], outcome)
                                 THEN outcome ELSE "ok",
                                 fs["generations"])
    /\ schanged' = (fs' # fs)
    /\ UNCHANGED <<backup_dir, taken, clock, uuids, accepted>>
    /\ UNCHANGED <<ledgerVars, requestVars, writerVars>>

StoreFaultNext ==
    \/ NewStorage
    \/ \E u \in StoreUsers, o \in WriteOutcomes : DoSaveImageTry(u, o)
    \/ \E u \in StoreUsers, id \in 1..MaxSaves, o \in WriteOutcomes :
          DoSaveGenerationRecordTry(u, id, o)
    \/ DoGetAllImages

StoreFaultStart == StoreIdle /\ LedgerIdle /\ RequestIdle /\ WriterIdle

\* the store used by one caller at a time on a disk whose writes can fail
SpecStoreFault == StoreFaultStart /\ [][StoreFaultNext]_vars

\* a store that may hold nine images, used by one caller at a time on a disk
\* whose writes can fail
TenthFaultStart == StoreInit /\ LedgerIdle /\ RequestIdle /\ WriterIdle

SpecTenthFault == TenthFaultStart /\ [][StoreFaultNext]_vars

\* the images of a store that has taken n snapshots and is one image short
\* of the next
EarlierImages(n) ==
    [i \in 1..(BackupEvery * (n + 1) - 1) |-> ImageRecord(100 + i, "a", FALSE)]

\* the second at which the j-th of n earlier snapshots was taken (the
\* modelled calls start at second 0)
SnapshotTime(j, n) == j - n - 1

\* the backups directory after the first j of n earlier snapshots, each with
\* its rotation
RECURSIVE SnapshotsBefore(_, _)
SnapshotsBefore(j, n) ==
    IF j = 0 THEN EmptyDict
    ELSE LET dir == SnapshotsBefore(j - 1, n)
             dir1 == DictSet(dir, BackupName("images", SnapshotTime(j, n)),
                             SubSeq(EarlierImages(n), 1, BackupEvery * j))
             dir2 == DictSet(dir1, BackupName("generations", SnapshotTime(j, n)), <<>>)
         IN  CleanupOldBackups(dir2)

RotateInit ==
    /\ \E n \in 0..MaxSnapshots :
          LET start == EarlierImages(n)
          IN  /\ fs = [FreshStore EXCEPT !["images"] =
                          WriteJsonAtomic(WriteJsonAtomic(@, SubSeq(start, 1, Len(start) - 1)),
                                          start)]
              /\ accepted = start
              /\ backup_dir = SnapshotsBefore(n, n)
              /\ taken = UNION {SnapshotNames(SnapshotTime(j, n)) : j \in 1..n}
    /\ clock = 0
    /\ uuids = 0
    /\ slast = NoStoreCall
    /\ schanged = FALSE

RotateNext ==
    \/ NewStorage
    \/ \E u \in StoreUsers : DoSaveImage(u)
    \/ DoGetAllImages
    \/ \E u \in StoreUsers, id \in 1..MaxImages : DoSaveGenerationRecord(u, id)
    \/ Tick

RotateStart == RotateInit /\ LedgerIdle /\ RequestIdle /\ WriterIdle

\* a store that has taken snapshots before, used by one caller at a time
SpecRotate == RotateStart /\ [][RotateNext]_vars

StoreStart == StoreInit /\ LedgerIdle /\ RequestIdle /\ WriterIdle

SpecStore == StoreStart /\ [][StoreNext]_vars

LedgerStart == LedgerInit /\ StoreIdle /\ RequestIdle /\ WriterIdle

SpecLedger == LedgerStart /\ [][LedgerNext]_vars

(***************************************************************************)
(* The ledger on a disk whose writes can fail                              *)
(***************************************************************************)
\* UsageTracker() in a directory where the file cannot be written
NewTrackerFault(outcome) ==
    /\ usage_file' = TryEnsureUsageFile(usage_file, outcome)
    /\ limits' = TrackerLimits
    /\ last' = Call("new", NoUser, "a", TRUE)
    /\ prev' = Caller(last)
    /\ before' = usage_file
    /\ UNCHANGED <<today, committed>>
    /\ UNCHANGED <<storeVars, requestVars, writerVars>>

DoIncrementFault(user_id, ip_address, outcome) ==
    LET r == TryIncrementUsage(usage_file, today, limits, user_id, ip_address, outcome)
        key == IdentityKey(user_id, ip_address)
    IN  /\ committed[key] < MaxCommits
        /\ usage_file' = r.file
        /\ last' = Call("increment", user_id, ip_address, r.ret)
        /\ prev' = Caller(last)
        /\ before' = usage_file
        /\ committed' = IF r.ret THEN [committed EXCEPT ![key] = @ + 1] ELSE committed
        /\ UNCHANGED <<today, limits>>
        /\ UNCHANGED <<storeVars, requestVars, writerVars>>

\* the working directory after its first UsageTracker(), whose write of the
\* file failed or went through
FaultInit ==
    /\ usage_file \in {NoUsageFile, JsonFile(EmptyDict)}
    /\ today = StartDay
    /\ limits = TrackerLimits
    /\ last = NoCall
    /\ prev = Caller(NoCall)
    /\ before = usage_file
    /\ committed = [k \in Keys |-> 0]

FaultNext ==
    \/ \E o \in SaveOutcomes : NewTrackerFault(o)
    \/ \E u \in UserIds \cup {NoUser}, i \in IpAddrs : DoCheck(u, i)
    \/ \E u \in UserIds \cup {NoUser}, i \in IpAddrs, o \in SaveOutcomes :
          DoIncrementFault(u, i, o)

FaultStart == FaultInit /\ StoreIdle /\ RequestIdle /\ WriterIdle

SpecLedgerFault == FaultStart /\ [][FaultNext]_vars

(***************************************************************************)
(* Concurrent requests on the ledger: routes/images.py constructs a        *)
(* UsageTracker per request, and increment_usage takes no lock             *)
(***************************************************************************)
\* a ledger in which the identity has count c under the current day
LedgerWithCount(user_id, ip_address, c) ==
    IF c = 0 THEN EmptyDict
    ELSE DictSet(EmptyDict, GetTodayKey(StartDay),
                 DictSet(EmptyDict, IdentityKey(user_id, ip_address), c))

\* increment_usage up to its early return: load, clean up, re-check, and
\* change the loaded dict
IncLoad(p) ==
    /\ pc[p] = "inc_load"
    /\ LET r == IncrementData(LoadUsageData(usage_file), today, limits, rq[1], rq[2])
       IN  IF r.ret
           THEN /\ inc_data' = [inc_data EXCEPT ![p] = r.data]
                /\ pc' = [pc EXCEPT ![p] = "inc_open"]
                /\ UNCHANGED inc_ret
           ELSE /\ inc_ret' = [inc_ret EXCEPT ![p] = FALSE]
                /\ pc' = [pc EXCEPT ![p] = "inc_done"]
                /\ UNCHANGED inc_data
    /\ UNCHANGED <<usage_file, rq, served, req_image>>
    /\ UNCHANGED <<today, limits, last, prev, before, committed, storeVars, writerVars>>

\* _save_usage_data: open(usage_file, 'w') truncates the file
IncOpen(p) ==
    /\ pc[p] = "inc_open"
    /\ usage_file' = UnreadableFile(0)
    /\ pc' = [pc EXCEPT ![p] = "inc_dump"]
    /\ UNCHANGED <<inc_data, inc_ret, rq, served, req_image>>
    /\ UNCHANGED <<today, limits, last, prev, before, committed, storeVars, writerVars>>

\* _save_usage_data: json.dump and close (one write from offset 0 into
\* whatever the file holds by then), then increment_usage returns True
IncDump(p) ==
    /\ pc[p] = "inc_dump"
    /\ usage_file' = DumpOver(usage_file, inc_data[p])
    /\ inc_ret' = [inc_ret EXCEPT ![p] = TRUE]
    /\ pc' = [pc EXCEPT ![p] = "inc_done"]
    /\ UNCHANGED <<inc_data, rq, served, req_image>>
    /\ UNCHANGED <<today, limits, last, prev, before, committed, storeVars, writerVars>>

RaceInit ==
    /\ rq \in Identities
    /\ \E c \in 0..(IdentityLimit(TrackerLimits, rq[1]) - 1) :
          usage_file = JsonFile(LedgerWithCount(rq[1], rq[2], c))
    /\ today = StartDay
    /\ limits = TrackerLimits
    /\ last = NoCall
    /\ prev = Caller(NoCall)
    /\ before = usage_file
    /\ committed = [k \in Keys |-> 0]
    /\ pc = [p \in Procs |-> "inc_load"]
    /\ inc_data = [p \in Procs |-> EmptyDict]
    /\ inc_ret = [p \in Procs |-> FALSE]
    /\ req_image = [p \in Procs |-> 0]
    /\ served = 0

RaceNext == \E p \in Procs : IncLoad(p) \/ IncOpen(p) \/ IncDump(p)

\* NProcs concurrent increment_usage calls for one identity
RaceStart == RaceInit /\ StoreIdle /\ WriterIdle

SpecRace == RaceStart /\ [][RaceNext]_vars

\* increment_usage up to its early return, for the identity of request p
PairLoad(p) ==
    /\ pc[p] = "inc_load"
    /\ LET r == IncrementData(LoadUsageData(usage_file), today, limits, rq[p][1], rq[p][2])
       IN  IF r.ret
           THEN /\ inc_data' = [inc_data EXCEPT ![p] = r.data]
                /\ pc' = [pc EXCEPT ![p] = "inc_open"]
                /\ UNCHANGED inc_ret
           ELSE /\ inc_ret' = [inc_ret EXCEPT ![p] = FALSE]
                /\ pc' = [pc EXCEPT ![p] = "inc_done"]
                /\ UNCHANGED inc_data
    /\ UNCHANGED <<usage_file, rq, served, req_image>>
    /\ UNCHANGED <<today, limits, last, prev, before, committed, storeVars, writerVars>>

\* each request has its identity, and not all have the same; the ledger is
\* empty or holds one commit of the first request's identity
PairInit ==
    /\ rq \in [Procs -> Identities]
    /\ \E p \in Procs : rq[p] # rq[1]
    /\ \E c \in 0..(IdentityLimit(TrackerLimits, rq[1][1]) - 1) :
          usage_file = JsonFile(LedgerWithCount(rq[1][1], rq[1][2], c))
    /\ today = StartDay
    /\ limits = TrackerLimits
    /\ last = NoCall
    /\ prev = Caller(NoCall)
    /\ before = usage_file
    /\ committed = [k \in Keys |-> 0]
    /\ pc = [p \in Procs |-> "inc_load"]
    /\ inc_data = [p \in Procs |-> EmptyDict]
    /\ inc_ret = [p \in Procs |-> FALSE]
    /\ req_image = [p \in Procs |-> 0]
    /\ served = 0

PairNext == \E p \in Procs : PairLoad(p) \/ IncOpen(p) \/ IncDump(p)

\* NProcs concurrent increment_usage calls, not all for the same identity
PairStart == PairInit /\ StoreIdle /\ WriterIdle

SpecPair == PairStart /\ [][PairNext]_vars

\* generate_image / generate_image_anonymous: UsageTracker() and
\* check_usage_limit; 429 when the limit is reached
ReqCheck(p) ==
    /\ pc[p] = "start"
    /\ usage_file' = EnsureUsageFile(usage_file)
    /\ pc' = [pc EXCEPT ![p] =
                 IF CheckUsageLimit(usage_file', today, TrackerLimits, rq[1], rq[2])[1]
                 THEN "generate" ELSE "refused"]
    /\ UNCHANGED <<inc_data, inc_ret, rq, served, req_image>>
    /\ UNCHANGED <<today, limits, last, prev, before, committed, storeVars, writerVars>>

\* validation, API key and the call to the generation API: image data and
\* generate_uuid(), or one of the error returns (validation, missing key,
\* timeout, service error, non-200, no image data)
ReqGenerate_ChargesFailure(p, ok) ==
    /\ pc[p] = "generate"
    /\ pc' = [pc EXCEPT ![p] =
                 IF ~ok THEN "inc_load"
                 ELSE IF rq[1] # NoUser THEN "services" ELSE "inc_load"]
    /\ req_image' = [req_image EXCEPT ![p] = IF ok THEN uuids + 1 ELSE 0]
    /\ uuids' = IF ok THEN uuids + 1 ELSE uuids
    /\ UNCHANGED <<inc_data, inc_ret, rq, served>>
    /\ UNCHANGED <<fs, backup_dir, taken, clock, accepted, slast, schanged>>
    /\ UNCHANGED <<ledgerVars, writerVars>>

ReqGenerate(p, ok) ==
    /\ pc[p] = "generate"
    /\ pc' = [pc EXCEPT ![p] =
                 IF ~ok THEN "failed"
                 ELSE IF rq[1] # NoUser THEN "services" ELSE "inc_load"]
    /\ req_image' = [req_image EXCEPT ![p] = IF ok THEN uuids + 1 ELSE 0]
    /\ uuids' = IF ok THEN uuids + 1 ELSE uuids
    /\ UNCHANGED <<inc_data, inc_ret, rq, served>>
    /\ UNCHANGED <<fs, backup_dir, taken, clock, accepted, slast, schanged>>
    /\ UNCHANGED <<ledgerVars, writerVars>>

\* generate_image: DynamoDBService() and S3Service(); when they raise, the
\* image is returned without being stored
ReqServices(p, up) ==
    /\ pc[p] = "services"
    /\ pc' = [pc EXCEPT ![p] = IF up THEN "persist" ELSE "inc_load"]
    /\ UNCHANGED <<inc_data, inc_ret, rq, served, req_image>>
    /\ UNCHANGED <<ledgerVars, storeVars, writerVars>>

\* what the write of save_image comes to in a request: it goes through, or
\* it raises before any file was touched
PersistOutcomes == {"ok", "open_raises"}

\* generate_image: PersistentStorage(), save_image, save_generation_record
\* inside one try; the except clause logs and the request goes on
ReqPersist(p, outcome) ==
    /\ pc[p] = "persist"
    /\ LET meta == ImageRecord(req_image[p], rq[1], FALSE)
           r == TrySaveImage(InitializeFiles(fs), backup_dir, clock, meta, outcome)
       IN  /\ fs' = IF r.raised THEN r.fs
                    ELSE TrySaveGenerationRecord(r.fs, clock, rq[1], req_image[p], "ok").fs
           /\ backup_dir' = r.dir
           /\ taken' = IF r.raised THEN taken
                      ELSE TakenAfter(taken, Len(GetAllImages(r.fs)), clock)
           /\ accepted' = IF r.raised THEN accepted ELSE Append(accepted, meta)
           /\ slast' = FaultCall("save_image", req_image[p], rq[1],
                                 IF r.raised THEN "raised" ELSE "returned",
                                 IF r.raised THEN outcome ELSE "ok",
                                 InitializeFiles(fs)["images"])
    /\ schanged' = (fs' # fs)
    /\ pc' = [pc EXCEPT ![p] = "inc_load"]
    /\ UNCHANGED <<clock, uuids>>
    /\ UNCHANGED <<inc_data, inc_ret, rq, served, req_image>>
    /\ UNCHANGED <<ledgerVars, writerVars>>

\* format_success_response: the image goes out whatever increment_usage
\* returned
ReqRespond(p) ==
    /\ pc[p] = "inc_done"
    /\ served' = served + 1
    /\ pc' = [pc EXCEPT ![p] = "done"]
    /\ UNCHANGED <<inc_data, inc_ret, rq, req_image>>
    /\ UNCHANGED <<ledgerVars, storeVars, writerVars>>

\* the identity has been served c images today, all of them counted: none,
\* or one less than its limit
RequestInit ==
    /\ rq \in Identities
    /\ \E c \in {0, IdentityLimit(TrackerLimits, rq[1]) - 1} :
          /\ usage_file = JsonFile(LedgerWithCount(rq[1], rq[2], c))
          /\ served = c
    /\ today = StartDay
    /\ limits = TrackerLimits
    /\ last = NoCall
    /\ prev = Caller(NoCall)
    /\ before = usage_file
    /\ committed = [k \in Keys |-> 0]
    /\ pc = [p \in Procs |-> "start"]
    /\ inc_data = [p \in Procs |-> EmptyDict]
    /\ inc_ret = [p \in Procs |-> FALSE]
    /\ req_image = [p \in Procs |-> 0]

RequestNext ==
    \E p \in Procs :
        \/ ReqCheck(p)
        \/ \E ok \in BOOLEAN : ReqGenerate(p, ok)
        \/ \E up \in BOOLEAN : ReqServices(p, up)
        \/ \E o \in PersistOutcomes : ReqPersist(p, o)
        \/ IncLoad(p)
        \/ IncOpen(p)
        \/ IncDump(p)
        \/ ReqRespond(p)

\* NProcs concurrent generation requests of one identity
RequestStart == RequestInit /\ StoreIdle /\ WriterIdle

SpecRequest == RequestStart /\ [][RequestNext]_vars

(***************************************************************************)
(* require_auth in front of generate_image: what the decorator accepts,    *)
(* and the identity the request passes to the ledger                       *)
(***************************************************************************)
DemoUser == "demo-user-123"

AdminUser == "admin-user"

\* the "sub" of a JWT payload: absent, or a string
NoSub == [present |-> FALSE, value |-> NoUser]

Sub(value) == [present |-> TRUE, value |-> value]

\* the Authorization header of a request: none, a string jwt.decode raises
\* on, or a JWT (its signature is not verified) with its "sub" and whether
\* its "email" is absent or the demo address
AuthHeader(kind, sub, demo_email) == [kind |-> kind, sub |-> sub, demo_email |-> demo_email]

AuthHeaders ==
    {AuthHeader("none", NoSub, TRUE), AuthHeader("invalid", NoSub, TRUE)}
        \cup {AuthHeader("jwt", s, e) : s \in {NoSub, Sub(""), Sub("a")}, e \in BOOLEAN}

\* require_auth: 401, or the request.user_id the wrapped view runs with;
\* payload.get('sub') is None for a payload without "sub"
RequireAuth(debug, admin_path, header) ==
    IF debug
    THEN [status |-> "ok",
          user_id |->
              IF header.kind = "jwt"
              THEN IF admin_path /\ header.demo_email THEN AdminUser
                   ELSE IF header.sub.present THEN header.sub.value ELSE DemoUser
              ELSE IF admin_path THEN AdminUser ELSE DemoUser]
    ELSE IF header.kind = "jwt"
         THEN [status |-> "ok", user_id |-> header.sub.value]
         ELSE [status |-> "401", user_id |-> NoUser]

\* a request to /generate goes through require_auth
AuthArrive(debug, header, ip_address) ==
    /\ pc[1] \in {"done", "refused", "failed", "unauthorized"}
    /\ LET r == RequireAuth(debug, FALSE, header)
       IN  /\ rq' = IF r.status = "ok" THEN <<r.user_id, ip_address>> ELSE rq
           /\ pc' = [pc EXCEPT ![1] = IF r.status = "ok" THEN "start" ELSE "unauthorized"]
           /\ last' = Call("require_auth", r.user_id, ip_address, r.status)
    /\ prev' = Caller(last)
    /\ before' = usage_file
    /\ UNCHANGED <<usage_file, today, limits, committed>>
    /\ UNCHANGED <<inc_data, inc_ret, served, req_image>>
    /\ UNCHANGED <<storeVars, writerVars>>

\* generate_image: UsageTracker() and check_usage_limit(request.user_id,
\* request.remote_addr); 429 when the limit is reached
AuthCheck ==
    /\ pc[1] = "start"
    /\ usage_file' = EnsureUsageFile(usage_file)
    /\ LET r == CheckUsageLimit(usage_file', today, TrackerLimits, rq[1], rq[2])
       IN  /\ last' = Call("check", rq[1], rq[2], r)
           /\ pc' = [pc EXCEPT ![1] = IF r[1] THEN "generate" ELSE "refused"]
    /\ prev' = Caller(last)
    /\ before' = usage_file'
    /\ UNCHANGED <<today, limits, committed>>
    /\ UNCHANGED <<inc_data, inc_ret, rq, served, req_image>>
    /\ UNCHANGED <<storeVars, writerVars>>

\* generate_image from the check to its increment_usage: an error return, or
\* image data (the storing of the image does not touch the ledger)
AuthGenerate(ok) ==
    /\ pc[1] = "generate"
    /\ pc' = [pc EXCEPT ![1] = IF ok THEN "increment" ELSE "failed"]
    /\ last' = Call("generate", rq[1], rq[2], ok)
    /\ prev' = Caller(last)
    /\ before' = usage_file
    /\ UNCHANGED <<usage_file, today, limits, committed>>
    /\ UNCHANGED <<inc_data, inc_ret, rq, served, req_image>>
    /\ UNCHANGED <<storeVars, writerVars>>

\* generate_image: increment_usage(request.user_id, request.remote_addr) and
\* the success response
AuthIncrement ==
    /\ pc[1] = "increment"
    /\ LET r == IncrementUsage(usage_file, today, TrackerLimits, rq[1], rq[2])
       IN  /\ usage_file' = r.file
           /\ last' = Call("increment", rq[1], rq[2], r.ret)
    /\ pc' = [pc EXCEPT ![1] = "done"]
    /\ prev' = Caller(last)
    /\ before' = usage_file
    /\ UNCHANGED <<today, limits, committed>>
    /\ UNCHANGED <<inc_data, inc_ret, rq, served, req_image>>
    /\ UNCHANGED <<storeVars, writerVars>>

AuthNext ==
    \/ \E debug \in BOOLEAN, h \in AuthHeaders, i \in IpAddrs : AuthArrive(debug, h, i)
    \/ AuthCheck
    \/ \E ok \in BOOLEAN : AuthGenerate(ok)
    \/ AuthIncrement

AuthStart == LedgerIdle /\ RequestIdle /\ StoreIdle /\ WriterIdle

\* requests to the authenticated generation route, one at a time
SpecAuth == AuthStart /\ [][AuthNext]_vars

(***************************************************************************)
(* Concurrent requests on the store: generate_image constructs a           *)
(* PersistentStorage per request, so the lock of save_image is the         *)
(* request's own; what requests share are the files                        *)
(***************************************************************************)
\* where the open files of the other writers of a collection are after
\* os.replace(src, dst) or os.remove(src) (dst = "gone")
Moved(sp, p, path, src, dst) ==
    [q \in DOMAIN sp |->
        IF q # p /\ sp[q].wpath = path /\ sp[q].wfd = src
        THEN [sp[q] EXCEPT !.wfd = dst]
        ELSE IF q # p /\ sp[q].wpath = path /\ sp[q].wfd = dst
             THEN [sp[q] EXCEPT !.wfd = "gone"]
             ELSE sp[q]]

WriterFrame == <<usage_file, today, limits, last, prev, before, committed,
                 clock, slast, schanged, pc, inc_data, inc_ret, rq, served, req_image>>

\* a request arrives: its record has a fresh uuid
SNew(p, user_id) ==
    /\ sproc[p].pc \in {"idle", "returned", "raised"}
    /\ uuids < MaxSaves
    /\ uuids' = uuids + 1
    /\ sproc' = [sproc EXCEPT ![p] =
                    [IdleWriter EXCEPT !.pc = "init",
                                       !.meta = ImageRecord(uuids + 1, user_id, FALSE)]]
    /\ UNCHANGED <<fs, backup_dir, taken, accepted>>
    /\ UNCHANGED WriterFrame

\* PersistentStorage(): _initialize_files looks at the next of its files
SInitFile(p) ==
    /\ sproc[p].pc = "init"
    /\ LET i == sproc[p].ini
       IN  sproc' = [sproc EXCEPT ![p] =
               IF i > Len(Collections)
               THEN [@ EXCEPT !.pc = "read"]
               ELSE IF fs[Collections[i]].file.exists
                    THEN [@ EXCEPT !.ini = i + 1]
                    ELSE [@ EXCEPT !.pc = "w_open", !.wpath = Collections[i],
                                   !.wdata = DefaultData(Collections[i]),
                                   !.wret = "init", !.wbak = FALSE]]
    /\ UNCHANGED <<fs, backup_dir, taken, uuids, accepted>>
    /\ UNCHANGED WriterFrame

\* save_image: _read_json_safe and append
SRead(p) ==
    /\ sproc[p].pc = "read"
    /\ LET images == ReadJsonSafe(fs["images"], <<>>)
       IN  sproc' = [sproc EXCEPT ![p] =
               [@ EXCEPT !.pc = "w_open", !.read = images, !.wpath = "images",
                         !.wdata = Append(images, sproc[p].meta),
                         !.wret = "saved", !.wbak = FALSE]]
    /\ UNCHANGED <<fs, backup_dir, taken, uuids, accepted>>
    /\ UNCHANGED WriterFrame

\* _write_json_atomic: open(temp_path, 'w') creates or truncates the .tmp
WOpen(p) ==
    /\ sproc[p].pc = "w_open"
    /\ fs' = [fs EXCEPT ![sproc[p].wpath].tmp = CorruptFile]
    /\ sproc' = [sproc EXCEPT ![p] = [@ EXCEPT !.pc = "w_dump", !.wfd = "tmp"]]
    /\ UNCHANGED <<backup_dir, taken, uuids, accepted>>
    /\ UNCHANGED WriterFrame

\* _write_json_atomic: json.dump and close.  The bytes go to the file that
\* was opened, wherever it has been renamed to; on top of what another writer
\* of the same file wrote in the meantime they may not parse.
WDump(p) ==
    /\ sproc[p].pc = "w_dump"
    /\ LET path == sproc[p].wpath
           loc == sproc[p].wfd
           mine == ListFile(sproc[p].wdata)
       IN  IF loc = "gone"
           THEN fs' = fs
           ELSE \E written \in {mine} \cup
                        (IF fs[path][loc].valid /\ fs[path][loc] # mine
                         THEN {CorruptFile} ELSE {}) :
                    fs' = [fs EXCEPT ![path][loc] = written]
    /\ sproc' = [sproc EXCEPT ![p] = [@ EXCEPT !.pc = "w_exists", !.wfd = "none"]]
    /\ UNCHANGED <<backup_dir, taken, uuids, accepted>>
    /\ UNCHANGED WriterFrame

\* _write_json_atomic: os.path.exists(file_path)
WExists(p) ==
    /\ sproc[p].pc = "w_exists"
    /\ sproc' = [sproc EXCEPT ![p] =
                    [@ EXCEPT !.pc = IF fs[sproc[p].wpath].file.exists
                                     THEN "w_backup" ELSE "w_replace"]]
    /\ UNCHANGED <<fs, backup_dir, taken, uuids, accepted>>
    /\ UNCHANGED WriterFrame

\* _write_json_atomic: os.replace(file_path, backup_path)
WBackup(p) ==
    /\ sproc[p].pc = "w_backup"
    /\ LET path == sproc[p].wpath
       IN  IF fs[path].file.exists
           THEN /\ fs' = [fs EXCEPT ![path] =
                             [@ EXCEPT !.backup = fs[path].file, !.file = AbsentFile]]
                /\ sproc' = [Moved(sproc, p, path, "file", "backup") EXCEPT ![p] =
                                [@ EXCEPT !.pc = "w_replace", !.wbak = TRUE]]
           ELSE /\ fs' = fs
                /\ sproc' = [sproc EXCEPT ![p] = [@ EXCEPT !.pc = "w_except"]]
    /\ UNCHANGED <<backup_dir, taken, uuids, accepted>>
    /\ UNCHANGED WriterFrame

\* _write_json_atomic: os.replace(temp_path, file_path), and the return to
\* _initialize_files or to save_image
WReplace(p) ==
    /\ sproc[p].pc = "w_replace"
    /\ LET path == sproc[p].wpath
       IN  IF fs[path].tmp.exists
           THEN /\ fs' = [fs EXCEPT ![path] =
                             [@ EXCEPT !.file = fs[path].tmp, !.tmp = AbsentFile]]
                /\ sproc' = [Moved(sproc, p, path, "tmp", "file") EXCEPT ![p] =
                                IF sproc[p].wret = "init"
                                THEN [@ EXCEPT !.pc = "init", !.ini = @ + 1]
                                ELSE [@ EXCEPT !.pc = "saved"]]
           ELSE /\ fs' = fs
                /\ sproc' = [sproc EXCEPT ![p] = [@ EXCEPT !.pc = "w_except"]]
    /\ UNCHANGED <<backup_dir, taken, uuids, accepted>>
    /\ UNCHANGED WriterFrame

\* _write_json_atomic: the except clause removes the .tmp if there is one and
\* raises; save_image or __init__ raises in turn
WExcept(p) ==
    /\ sproc[p].pc = "w_except"
    /\ LET path == sproc[p].wpath
       IN  IF fs[path].tmp.exists
           THEN /\ fs' = [fs EXCEPT ![path].tmp = AbsentFile]
                /\ sproc' = [Moved(sproc, p, path, "tmp", "gone") EXCEPT ![p] =
                                [@ EXCEPT !.pc = "raised"]]
           ELSE /\ fs' = fs
                /\ sproc' = [sproc EXCEPT ![p] = [@ EXCEPT !.pc = "raised"]]
    /\ UNCHANGED <<backup_dir, taken, uuids, accepted>>
    /\ UNCHANGED WriterFrame

\* save_image after its write: the snapshot at every tenth image, and the
\* return
SSaved(p) ==
    /\ sproc[p].pc = "saved"
    /\ backup_dir' = IF Len(sproc[p].wdata) % BackupEvery = 0
                     THEN CreateBackup(fs, backup_dir, clock) ELSE backup_dir
    /\ taken' = TakenAfter(taken, Len(sproc[p].wdata), clock)
    /\ accepted' = Append(accepted, sproc[p].meta)
    /\ sproc' = [sproc EXCEPT ![p] = [@ EXCEPT !.pc = "returned"]]
    /\ UNCHANGED <<fs, uuids>>
    /\ UNCHANGED WriterFrame

\* the process is killed inside PersistentStorage() or save_image
Crash(p) ==
    /\ sproc[p].pc \notin {"idle", "returned", "raised", "crashed"}
    /\ sproc' = [sproc EXCEPT ![p] = [@ EXCEPT !.pc = "crashed", !.at = sproc[p].pc]]
    /\ UNCHANGED <<fs, backup_dir, taken, uuids, accepted>>
    /\ UNCHANGED WriterFrame

\* the server is started again
Restart(p) ==
    /\ sproc[p].pc = "crashed"
    /\ sproc' = [sproc EXCEPT ![p] = IdleWriter]
    /\ UNCHANGED <<fs, backup_dir, taken, uuids, accepted>>
    /\ UNCHANGED WriterFrame

WriterInit ==
    /\ fs = FreshStore
    /\ backup_dir = EmptyDict
    /\ taken = {}
    /\ clock = 0
    /\ uuids = 0
    /\ accepted = <<>>
    /\ slast = NoStoreCall
    /\ schanged = FALSE
    /\ sproc = [p \in Procs |-> IdleWriter]

StoreRaceNext ==
    \E p \in Procs :
        \/ \E u \in StoreUsers : SNew(p, u)
        \/ SInitFile(p)
        \/ SRead(p)
        \/ WOpen(p)
        \/ WDump(p)
        \/ WExists(p)
        \/ WBackup(p)
        \/ WReplace(p)
        \/ WExcept(p)
        \/ SSaved(p)

\* NProcs requests at a time, each saving an image through its own
\* PersistentStorage
StoreRaceStart == WriterInit /\ LedgerIdle /\ RequestIdle

SpecStoreRace == StoreRaceStart /\ [][StoreRaceNext]_vars

\* one request at a time, a process that can be killed at any step and
\* started again; alone, a writer never reaches its except clause
CrashNext ==
    \/ \E u \in StoreUsers : SNew(1, u)
    \/ SInitFile(1)
    \/ SRead(1)
    \/ WOpen(1)
    \/ WDump(1)
    \/ WExists(1)
    \/ WBackup(1)
    \/ WReplace(1)
    \/ SSaved(1)
    \/ Crash(1)
    \/ Restart(1)

SpecCrash == StoreRaceStart /\ [][CrashNext]_vars

\* PersistentStorage() in a request that only reads: the instance is
\* constructed, and no save_image follows
SConstruct(p) ==
    /\ sproc[p].pc \in {"idle", "read", "raised"}
    /\ sproc' = [sproc EXCEPT ![p] = [IdleWriter EXCEPT !.pc = "init"]]
    /\ UNCHANGED <<fs, backup_dir, taken, uuids, accepted>>
    /\ UNCHANGED WriterFrame

\* the requests that only construct an instance
Constructors == Procs \ {1}

ConstructNext ==
    \/ \E u \in StoreUsers : SNew(1, u)
    \/ SRead(1)
    \/ SSaved(1)
    \/ \E q \in Constructors : SConstruct(q)
    \/ \E p \in Procs :
          \/ SInitFile(p)
          \/ WOpen(p)
          \/ WDump(p)
          \/ WExists(p)
          \/ WBackup(p)
          \/ WReplace(p)
          \/ WExcept(p)

ConstructStart == WriterInit /\ LedgerIdle /\ RequestIdle

\* one request at a time saves images through its PersistentStorage while
\* other requests construct instances over the same files
SpecConstruct == ConstructStart /\ [][ConstructNext]_vars

(***************************************************************************)
(* Properties of the ledger used by one caller at a time                   *)
(***************************************************************************)
DailyLimit(user_id) == IF user_id # NoUser THEN 5 ELSE 1

\* C1: once increment_usage has returned True `limit` times for an identity
\* on one day (5 authenticated, 1 anonymous; commits cancelled by reset_usage
\* not counted), a further increment_usage returns False and leaves the
\* stored count at `limit`.
C1_QuotaMonotonic ==
    last.op = "increment" =>
        LET key == IdentityKey(last.user_id, last.ip)
            limit == DailyLimit(last.user_id)
            committedBefore == committed[key] - (IF last.ret THEN 1 ELSE 0)
        IN  committedBefore = limit =>
                /\ last.ret = FALSE
                /\ StoredCount(usage_file, today, key) = limit
                /\ usage_file = before

\* an authenticated user at 5 commits was refused the sixth
C1_Witness ==
    /\ last.op = "increment"
    /\ last.user_id # NoUser
    /\ last.ret = FALSE
    /\ committed[IdentityKey(last.user_id, last.ip)] = 5

\* C8: what was committed on day D has no effect on day D+1: as long as an
\* identity has no commit on the new day, check_usage_limit returns
\* (True, 0, limit) and increment_usage succeeds.
C8_DayIsolation ==
    /\ \A id \in Identities :
          committed[IdentityKey(id[1], id[2])] = 0 =>
              /\ CheckUsageLimit(usage_file, today, limits, id[1], id[2])
                     = <<TRUE, 0, DailyLimit(id[1])>>
              /\ IncrementUsage(usage_file, today, limits, id[1], id[2]).ret
    /\ (prev.op = "nextday" /\ last.op = "check") =>
          last.ret = <<TRUE, 0, DailyLimit(last.user_id)>>
    /\ (prev.op = "nextday" /\ last.op = "increment") =>
          /\ last.ret = TRUE
          /\ StoredCount(usage_file, today, IdentityKey(last.user_id, last.ip)) = 1

\* the first commit of a new day succeeded for an identity that was at its
\* limit the day before
C8_Witness ==
    /\ prev.op = "nextday"
    /\ last.op = "increment"
    /\ last.ret = TRUE
    /\ StoredCount(usage_file, today - 1, IdentityKey(last.user_id, last.ip))
           = DailyLimit(last.user_id)

\* C9: reset_usage twice in a row leaves the ledger file that one call
\* leaves, each call returns True, and a check that follows reports
\* current_usage 0 and can_generate True.
C9_ResetIdempotent ==
    /\ \A id \in Identities :
          LET once == ResetUsage(usage_file, today, id[1], id[2])
              twice == ResetUsage(once.file, today, id[1], id[2])
          IN  /\ once.ret = TRUE
              /\ twice.ret = TRUE
              /\ twice.file = once.file
              /\ CheckUsageLimit(twice.file, today, limits, id[1], id[2])
                     = <<TRUE, 0, DailyLimit(id[1])>>
    /\ last.op = "reset" =>
          /\ last.ret = TRUE
          /\ CheckUsageLimit(usage_file, today, limits, last.user_id, last.ip)
                 = <<TRUE, 0, DailyLimit(last.user_id)>>
    /\ (last.op = "reset" /\ prev = Caller(last)) => usage_file = before

\* reset_usage was called twice in a row for an authenticated user, on a
\* day that has a bucket in the ledger (so each call saved the file)
C9_Witness ==
    /\ last.op = "reset"
    /\ prev = Caller(last)
    /\ last.user_id # NoUser
    /\ today \in DOMAIN usage_file.data

\* C10: check_usage_limit returns (current_count < limit, current_count,
\* limit) with current_count the count stored for the identity under the
\* current day (0 if none) and limit 5 for an authenticated user, 1 for an
\* anonymous IP; the limits of the tracker never change.
C10_CheckResult ==
    /\ limits = [anonymous |-> 1, authenticated |-> 5]
    /\ \A id \in Identities :
          LET current_count == StoredCount(usage_file, today, IdentityKey(id[1], id[2]))
              limit == DailyLimit(id[1])
          IN  CheckUsageLimit(usage_file, today, limits, id[1], id[2])
                  = <<current_count < limit, current_count, limit>>
    /\ last.op = "check" =>
          LET current_count == StoredCount(before, today, IdentityKey(last.user_id, last.ip))
              limit == DailyLimit(last.user_id)
          IN  last.ret = <<current_count < limit, current_count, limit>>

\* check_usage_limit refused an authenticated user at 5 of 5
C10_Witness ==
    /\ last.op = "check"
    /\ last.ret = <<FALSE, 5, 5>>

\* C11: get_usage_stats is derived from check_usage_limit in the same state:
\* can_generate, current_usage and limit are the check result, remaining is
\* max(0, limit - current_usage) and is 0 exactly when can_generate is false,
\* user_type is 'authenticated' iff a user id is given, and reset_time is
\* midnight of the day after the current one, at whatever hour it is asked.
C11_StatsDerived ==
    /\ \A id \in Identities, h \in Hours :
          LET c == CheckUsageLimit(usage_file, today, limits, id[1], id[2])
              st == GetUsageStats(usage_file, today, h, limits, id[1], id[2])
          IN  /\ <<st.can_generate, st.current_usage, st.limit>> = c
              /\ st.remaining = (IF c[3] - c[2] > 0 THEN c[3] - c[2] ELSE 0)
              /\ (st.remaining = 0) <=> ~st.can_generate
              /\ (st.user_type = "authenticated") <=> (id[1] # NoUser)
              /\ st.user_type \in {"authenticated", "anonymous"}
              /\ st.reset_time = [day |-> today + 1, hour |-> 0]
    /\ last.op = "stats" =>
          LET c == CheckUsageLimit(before, today, limits, last.user_id, last.ip)
          IN  /\ <<last.ret.can_generate, last.ret.current_usage, last.ret.limit>> = c
              /\ last.ret.remaining = (IF c[3] - c[2] > 0 THEN c[3] - c[2] ELSE 0)
              /\ (last.ret.remaining = 0) <=> ~last.ret.can_generate
              /\ (last.ret.user_type = "authenticated") <=> (last.user_id # NoUser)
              /\ last.ret.reset_time = [day |-> today + 1, hour |-> 0]

\* get_usage_stats was asked for an authenticated user that has used 2 of 5
C11_Witness ==
    /\ last.op = "stats"
    /\ last.user_id # NoUser
    /\ last.ret.current_usage = 2
    /\ last.ret.remaining = 3

\* C13: a UsageTracker constructed over an existing ledger file leaves the
\* file as it was, and what it observes for every identity is the count
\* committed by the trackers before it: an identity at its limit is refused
\* with that count.
C13_NewTrackerObserves ==
    /\ \A id \in Identities :
          LET key == IdentityKey(id[1], id[2])
              seen == CheckUsageLimit(EnsureUsageFile(usage_file), today, TrackerLimits,
                                      id[1], id[2])
          IN  /\ seen = <<committed[key] < DailyLimit(id[1]), committed[key],
                          DailyLimit(id[1])>>
              /\ committed[key] = DailyLimit(id[1]) =>
                     ~IncrementUsage(EnsureUsageFile(usage_file), today, TrackerLimits,
                                     id[1], id[2]).ret
    /\ usage_file.exists => EnsureUsageFile(usage_file) = usage_file
    /\ last.op = "new" =>
          /\ usage_file = before
          /\ limits = TrackerLimits
          /\ \A id \in Identities :
                CheckUsageLimit(usage_file, today, limits, id[1], id[2])[2]
                    = committed[IdentityKey(id[1], id[2])]

\* a tracker was constructed right after the fifth commit of a user
C13_Witness ==
    /\ last.op = "new"
    /\ prev.op = "increment"
    /\ committed[<<"user", "a">>] = 5
    /\ CheckUsageLimit(usage_file, today, limits, "a", "a") = <<FALSE, 5, 5>>

\* C12: whenever increment_usage returns True, the count the ledger file
\* holds for the identity under the current day is one more than it was
\* before the call, also when the write of the file fails.
C12_PersistedOnTrue ==
    (last.op = "increment" /\ last.ret = TRUE) =>
        LET key == IdentityKey(last.user_id, last.ip)
        IN  StoredCount(usage_file, today, key) = StoredCount(before, today, key) + 1

\* the ledger file is absent or does not parse
Unreadable(file) == ~file.exists \/ ~file.valid

\* C19: with the ledger file absent or unparseable, check_usage_limit returns
\* (True, 0, limit) for every identity, and increment_usage returns True and
\* leaves a ledger file in which the identity's count for today is 1.
C19_FailOpen ==
    /\ Unreadable(usage_file) =>
          \A id \in Identities :
              CheckUsageLimit(usage_file, today, limits, id[1], id[2])
                  = <<TRUE, 0, DailyLimit(id[1])>>
    /\ (last.op = "check" /\ Unreadable(before)) =>
          last.ret = <<TRUE, 0, DailyLimit(last.user_id)>>
    /\ (last.op = "increment" /\ Unreadable(before)) =>
          /\ last.ret = TRUE
          /\ StoredCount(usage_file, today, IdentityKey(last.user_id, last.ip)) = 1

(***************************************************************************)
(* Properties of the store used by one caller at a time                    *)
(***************************************************************************)
\* a record without its one mutable field
Identity(images) ==
    [i \in 1..Len(images) |-> [id |-> images[i].id, user_id |-> images[i].user_id]]

OwnedByOther(f, image_id, user_id) ==
    \E i \in 1..Len(GetAllImages(f)) :
        /\ GetAllImages(f)[i].id = image_id
        /\ GetAllImages(f)[i].user_id # user_id

C7_OwnershipIsolation ==
    /\ \A id \in ImageIds, u \in StoreUsers, v \in BOOLEAN :
          OwnedByOther(fs, id, u) =>
              LET r == UpdateImageFavorite(fs, id, u, v)
                  missing == UpdateImageFavorite(fs, 0, u, v)
              IN  /\ r.ret = FALSE
                  /\ r.fs = fs
                  /\ r = missing
    /\ (slast.op = "update_image_favorite"
            /\ OwnedByOther(fs, slast.image_id, slast.user_id)) =>
          /\ slast.ret = FALSE
          /\ ~schanged

\* update_image_favorite was called on a stored record by a user that does
\* not own it
C7_Witness ==
    /\ slast.op = "update_image_favorite"
    /\ OwnedByOther(fs, slast.image_id, slast.user_id)
    /\ slast.ret = FALSE

\* the k most recent snapshot names of one kind
MostRecent(names, kind, k) ==
    {n \in names :
        /\ n.kind = kind
        /\ Cardinality({m \in names : m.kind = kind /\ m.ts > n.ts}) < k}

\* C16: after a backup rotation the backups directory holds at most 20
\* files: the 10 most recent artifact snapshots and the 10 most recent
\* generation snapshots of all that were taken (all of a kind when fewer
\* than 10 exist).
C16_RotationKeepsTenOfEach ==
    (slast.op = "save_image" /\ Len(GetAllImages(fs)) % 10 = 0) =>
        /\ Cardinality(DOMAIN backup_dir) <= 20
        /\ DOMAIN backup_dir = MostRecent(taken, "images", 10)
                                   \cup MostRecent(taken, "generations", 10)

(***************************************************************************)
(* Properties of the store on a disk whose writes can fail                 *)
(***************************************************************************)
\* C14: when a step of _write_json_atomic raises, the .tmp is gone, the call
\* raises, and the target and its .backup are exactly as they were before
\* the call.
C14_FailedWriteUntouched ==
    (slast.op = "save_image" /\ slast.fault # "ok") =>
        /\ slast.ret = "raised"
        /\ ~fs["images"].tmp.exists
        /\ fs["images"].file = slast.was.file
        /\ fs["images"].backup = slast.was.backup

\* what the spec's read-with-recovery returns for a collection
RecoveredRead(files, default) ==
    IF files.file.exists /\ files.file.valid THEN files.file.data
    ELSE IF files.backup.exists /\ files.backup.valid THEN files.backup.data
    ELSE default

\* C15: _read_json_safe returns the target's content if it parses; if the
\* target does not parse or is absent, the .backup content if that file
\* exists and parses; otherwise the empty collection.
C15_ReadWithRecovery ==
    /\ \A path \in DOMAIN fs :
          ReadJsonSafe(fs[path], DefaultData(path)) = RecoveredRead(fs[path], DefaultData(path))
    /\ slast.op = "get_all_images" => slast.ret = RecoveredRead(fs["images"], <<>>)

\* C17: when the write fails inside save_image or save_generation_record,
\* the call raises to its caller and the persisted collection does not hold
\* the new record.
C17_WriteFailureSurfaces ==
    /\ (slast.op = "save_image" /\ slast.fault # "ok") =>
          /\ slast.ret = "raised"
          /\ \A i \in 1..Len(GetAllImages(fs)) : GetAllImages(fs)[i].id # slast.image_id
    /\ (slast.op = "save_generation_record" /\ slast.fault # "ok") =>
          /\ slast.ret = "raised"
          /\ LET generations == ReadJsonSafe(fs["generations"], <<>>)
             IN  \A i \in 1..Len(generations) : generations[i].image_id # slast.image_id

(***************************************************************************)
(* Properties of concurrent requests on the ledger                         *)
(***************************************************************************)
Min(a, b) == IF a <= b THEN a ELSE b

\* C2: NProcs concurrent increment_usage calls for one identity that starts
\* the day at 0, with limit L: once all have returned, exactly
\* min(NProcs, L) of them returned True and the stored count is
\* min(NProcs, L).
C2_RaceSafety ==
    LET key == IdentityKey(rq[1], rq[2])
        L == DailyLimit(rq[1])
    IN  ((\A p \in Procs : pc[p] = "inc_done")
            /\ StoredCount(before, today, key) = 0) =>
            /\ Cardinality({p \in Procs : inc_ret[p]}) = Min(NProcs, L)
            /\ StoredCount(usage_file, today, key) = Min(NProcs, L)

\* C29: increment_usage for identity A never changes the stored count of a
\* different identity B; when increment_usage calls for A and for B
\* interleave and both return True, both increments are in the final
\* persisted ledger.
C29_OtherIdentityKept ==
    (\A p \in Procs : pc[p] = "inc_done") =>
        \A p, q \in Procs :
            LET A == IdentityKey(rq[p][1], rq[p][2])
                B == IdentityKey(rq[q][1], rq[q][2])
            IN  (A # B /\ inc_ret[p] /\ inc_ret[q]) =>
                    /\ StoredCount(usage_file, today, A) > StoredCount(before, today, A)
                    /\ StoredCount(usage_file, today, B) > StoredCount(before, today, B)

\* C3: the images returned to one identity on one day never exceed its
\* daily limit, however its requests interleave.
C3_DailyCap == served <= DailyLimit(rq[1])

\* the artifact collection holds the record of the image of request p
Persisted(p) ==
    \E i \in 1..Len(GetAllImages(fs)) : GetAllImages(fs)[i].id = req_image[p]

\* the last store call was the save_image of the record of request p
SavedBy(p) == slast.op = "save_image" /\ slast.image_id = req_image[p]

\* C18: an authenticated generation request whose save_image raised does
\* not report success: when a request that called save_image reports
\* success, the call has returned and the record is in the persisted
\* collection.
C18_SuccessImpliesPersisted ==
    [][\A p \in Procs :
          (rq[1] # NoUser /\ SavedBy(p) /\ pc[p] = "inc_done" /\ pc'[p] = "done") =>
              /\ slast.ret = "returned"
              /\ Persisted(p)]_vars

\* a request is charged: its increment_usage writes the ledger file
Charges(p) == pc[p] \in {"inc_open", "inc_dump"} /\ pc'[p] # pc[p]

\* C20: the ledger is written only by the increment_usage of a request
\* whose generation call has returned image data; a request that was refused
\* or ended in an error never reaches increment_usage and leaves the ledger
\* as it is.
C20_ChargedOnlyAfterImage ==
    /\ [](\A p \in Procs :
             /\ pc[p] \in {"inc_load", "inc_open", "inc_dump", "inc_done"} => req_image[p] # 0
             /\ pc[p] \in {"refused", "failed"} =>
                    req_image[p] = 0 /\ inc_data[p] = EmptyDict /\ ~inc_ret[p])
    /\ [][/\ usage_file' # usage_file =>
                (\E q \in Procs : Charges(q) /\ req_image[q] # 0)
           /\ \A p \in Procs :
                (pc[p] \in {"start", "generate"} /\ pc'[p] \in {"refused", "failed"}) =>
                    usage_file' = usage_file]_vars

\* one request of the identity ended in an error of the generation call and
\* another was charged after its image had come back
C20_Witness ==
    \E p, q \in Procs :
        /\ pc[p] = "failed"
        /\ pc[q] = "done"
        /\ inc_ret[q]
        /\ req_image[q] # 0
        /\ StoredCount(usage_file, today, IdentityKey(rq[1], rq[2])) > 0

(***************************************************************************)
(* Properties of the files of the store                                    *)
(***************************************************************************)
\* a writer of the images file was killed after it had renamed the target to
\* .backup and before it renamed the .tmp onto the target
KilledInWindow(p) ==
    /\ sproc[p].pc = "crashed"
    /\ sproc[p].at = "w_replace"
    /\ sproc[p].wpath = "images"
    /\ sproc[p].wbak

\* C4: after _write_json_atomic was interrupted between the rename of the
\* target to .backup and the rename of the .tmp onto the target, the next
\* _read_json_safe returns the complete collection of before the write or the
\* complete new one.
C4_InterruptedWrite ==
    \A p \in Procs :
        KilledInWindow(p) =>
            ReadJsonSafe(fs["images"], <<>>) \in {sproc[p].read, sproc[p].wdata}

\* C6: once no save_image call is in progress, every record of a save_image
\* call that returned is in the artifact collection, also when the calls came
\* from concurrent requests with a PersistentStorage each.
C6_NoLostUpdate ==
    (\A p \in Procs : sproc[p].pc \in {"idle", "returned"}) =>
        \A i \in 1..Len(accepted) :
            \E j \in 1..Len(GetAllImages(fs)) : GetAllImages(fs)[j].id = accepted[i].id

(***************************************************************************)
(* Properties of the authenticated route                                   *)
(***************************************************************************)
\* C21: every check_usage_limit and increment_usage made for a request that
\* passed require_auth reads and writes a "user:<id>" counter and applies
\* the authenticated limit 5; it never reads or increments an "ip:<addr>"
\* counter nor applies the anonymous limit, whatever token was accepted.
C21_AuthenticatedCounter ==
    /\ last.op = "check" =>
          /\ last.ret[3] = 5
          /\ last.ret[2] = StoredCount(before, today, <<"user", last.user_id>>)
    /\ last.op = "increment" =>
          \A i \in IpAddrs :
              StoredCount(usage_file, today, <<"ip", i>>)
                  = StoredCount(before, today, <<"ip", i>>)

(***************************************************************************)
(* Properties of the store used by one caller at a time                    *)
(***************************************************************************)
\* the generation-event collection as a reader finds it
Generations(f) == ReadJsonSafe(f["generations"], <<>>)

IsPrefix(s, t) == Len(s) <= Len(t) /\ SubSeq(t, 1, Len(s)) = s

C23_ReadsLeaveLedger ==
    /\ AfterCheckUsageLimit(usage_file, today) = usage_file
    /\ last.op \in {"check", "stats"} =>
          /\ usage_file = before
          /\ \A id \in Identities :
                /\ CheckUsageLimit(usage_file, today, limits, id[1], id[2])
                       = CheckUsageLimit(before, today, limits, id[1], id[2])
                /\ IncrementUsage(usage_file, today, limits, id[1], id[2])
                       = IncrementUsage(before, today, limits, id[1], id[2])

\* check_usage_limit ran on a ledger that holds a bucket older than the
\* retention window, which its clean-up drops from the loaded dict
C23_Witness ==
    /\ last.op = "check"
    /\ before.exists
    /\ \E d \in DOMAIN before.data : d < today - RetentionDays

\* C24: after any check_usage_limit or increment_usage call the ledger file
\* holds no day-bucket dated more than 7 days before the current day (so at
\* most 8 buckets), and every bucket dated within the last 7 days is kept
\* with its counts unchanged (but for the count the call commits).
C24_EvictedOnRead ==
    last.op \in {"check", "increment"} =>
        LET data == LoadUsageData(usage_file)
            was == LoadUsageData(before)
            key == IdentityKey(last.user_id, last.ip)
        IN  /\ \A d \in DOMAIN data : d >= today - RetentionDays
            /\ Cardinality(DOMAIN data) <= RetentionDays + 1
            /\ \A d \in DOMAIN was :
                  d >= today - RetentionDays =>
                      /\ d \in DOMAIN data
                      /\ \A k \in DOMAIN was[d] :
                            (d # today \/ k # key) =>
                                k \in DOMAIN data[d] /\ data[d][k] = was[d][k]

\* C25: a successful update_image_favorite(image_id, owner, value) sets the
\* is_favorite field of the record matching both id and owner to value and
\* changes nothing else: the record's id and other fields, every other
\* record, the order of the collection and the generation-event collection
\* are as before.
C25_FavoriteFrame ==
    /\ [](\A id \in ImageIds, u \in StoreUsers, v \in BOOLEAN :
             LET r == UpdateImageFavorite(fs, id, u, v)
                 old == GetAllImages(fs)
             IN  r.ret =>
                    /\ \E i \in 1..Len(old) :
                          /\ old[i].id = id
                          /\ old[i].user_id = u
                          /\ GetAllImages(r.fs) = [old EXCEPT ![i].is_favorite = v]
                    /\ r.fs["generations"] = fs["generations"])
    /\ [][(slast'.op = "update_image_favorite" /\ slast'.ret = TRUE) =>
             LET old == GetAllImages(fs)
                 new == GetAllImages(fs')
             IN  /\ \E i \in 1..Len(old) :
                       /\ old[i].id = slast'.image_id
                       /\ old[i].user_id = slast'.user_id
                       /\ new = [old EXCEPT ![i].is_favorite = new[i].is_favorite]
                 /\ fs'["generations"] = fs["generations"]
                 /\ backup_dir' = backup_dir]_vars

\* the owner changed the flag of the last of ten records to True, in a
\* store that holds a generation event
C25_Witness ==
    /\ slast.op = "update_image_favorite"
    /\ slast.ret = TRUE
    /\ Len(GetAllImages(fs)) = 10
    /\ GetAllImages(fs)[10].is_favorite
    /\ Len(Generations(fs)) >= 1

\* C26: a backup snapshot is taken exactly at every 10th successful
\* save_image (the 10th, 20th, ... accepted artifact write) and by no other
\* operation, also in sequences in which a read fell back to .backup or to
\* an empty collection.
C26_SnapshotEveryTenth ==
    [][(backup_dir' # backup_dir) <=>
          (/\ Len(accepted') = Len(accepted) + 1
           /\ Len(accepted') % BackupEvery = 0)]_vars

\* C28: reset_usage(identity) removes only that identity's counter for the
\* current day: the counters of every other identity (an IP whose address
\* equals the user id included) and of every other day are unchanged, so an
\* anonymous IP at its limit is still refused after a user was reset.
C28_ResetFrame ==
    last.op = "reset" =>
        LET data == LoadUsageData(usage_file)
            was == LoadUsageData(before)
            key == IF last.user_id # NoUser THEN <<"user", last.user_id>>
                   ELSE <<"ip", last.ip>>
        IN  /\ DOMAIN data = DOMAIN was
            /\ \A d \in DOMAIN was :
                  /\ d # today => data[d] = was[d]
                  /\ d = today =>
                        /\ DOMAIN data[d] = DOMAIN was[d] \ {key}
                        /\ \A k \in DOMAIN data[d] : data[d][k] = was[d][k]
            /\ last.user_id # NoUser =>
                  \A i \in IpAddrs :
                      /\ StoredCount(usage_file, today, <<"ip", i>>)
                             = StoredCount(before, today, <<"ip", i>>)
                      /\ CheckUsageLimit(usage_file, today, limits, NoUser, i)
                             = CheckUsageLimit(before, today, limits, NoUser, i)
            /\ last.user_id = NoUser =>
                  \A u \in UserIds :
                      CheckUsageLimit(usage_file, today, limits, u, last.ip)
                          = CheckUsageLimit(before, today, limits, u, last.ip)

\* user "a" was reset while the anonymous IP "a" was at its limit and the
\* ledger held a bucket of an earlier day: the IP is still refused
C28_Witness ==
    /\ last.op = "reset"
    /\ last.user_id = "a"
    /\ StoredCount(before, today, <<"user", "a">>) > 0
    /\ StoredCount(usage_file, today, <<"user", "a">>) = 0
    /\ CheckUsageLimit(usage_file, today, limits, NoUser, "a") = <<FALSE, 1, 1>>
    /\ \E d \in DOMAIN usage_file.data : d # today

(***************************************************************************)
(* Properties of the backups directory                                     *)
(***************************************************************************)
\* C27: backup rotation deletes in reverse chronological order: it never
\* deletes a snapshot whose timestamp is newer than that of a snapshot it
\* retains, and the artifact snapshot and the event snapshot written by the
\* current backup are both present after the rotation that follows it.
C27_RotationOldestFirst ==
    [][backup_dir' # backup_dir =>
          LET written == SnapshotNames(clock)
              kept == DOMAIN backup_dir'
              deleted == (DOMAIN backup_dir \cup written) \ kept
          IN  /\ \A d \in deleted, k \in kept : d.ts <= k.ts
              /\ written \subseteq kept]_vars

(***************************************************************************)
(* Properties of the construction of an instance                           *)
(***************************************************************************)
\* C30: constructing a PersistentStorage over existing files never changes
\* the artifact or event collections and never makes another instance's
\* write fail, also when the construction falls between the two renames of
\* another instance's _write_json_atomic: the save_image calls of the one
\* saving request never raise, and once no call is in progress the
\* collections hold what these calls wrote.
C30_ConstructionHarmless ==
    /\ sproc[1].pc # "raised"
    /\ (\A p \in Procs : sproc[p].pc \in {"idle", "returned", "read", "raised"}) =>
          /\ GetAllImages(fs) = accepted
          /\ Generations(fs) = <<>>

====
